---- MODULE Spec2Model ----
(***************************************************************************)
(* Model of drivers/regulator/mv-vbus-regulator.c: the Marvell USB VBUS    *)
(* fixed-voltage regulator that is switched by one GPIO line.              *)
(*                                                                         *)
(* A behaviour is the life of one platform device: the driver core calls   *)
(* probe while no instance is bound, the regulator framework calls the     *)
(* vbus_ops handlers while the regulator is registered, and the driver     *)
(* core calls remove on a bound instance.  All calls are synchronous, so   *)
(* every handler is one action.                                            *)
(***************************************************************************)
EXTENDS Integers, Sequences, FiniteSets

\* ---------------------------------------------------------------- bounds
MaxUV == 2          \* voltages of the hardware description range over 0..MaxUV
MaxGpio == 1        \* the GPIO numbers 0..MaxGpio are valid lines
MaxSelector == 2    \* list_voltage is called with selectors 0..MaxSelector

\* ------------------------------------------------------------ errno codes
ENOMEM == 12
EINVAL == 22
ENODEV == 19
EPROBE_DEFER == 517
EBUSY == 16

\* A null pointer to a structure; string pointers use the string "NULL".
NULL == [null |-> TRUE]

ValidGpios == 0..MaxGpio

\* gpio_is_valid(): the number names a line of the GPIO subsystem.
gpio_is_valid(number) == number \in ValidGpios

\* GPIOF_* request flags, as the set of flag bits that are set.
GPIOF_DIR_OUT == {}
GPIOF_DIR_IN == {"DIR_IN"}
GPIOF_INIT_LOW == {}
GPIOF_INIT_HIGH == {"INIT_HIGH"}
GPIOF_OUT_INIT_LOW == GPIOF_DIR_OUT \cup GPIOF_INIT_LOW
GPIOF_OUT_INIT_HIGH == GPIOF_DIR_OUT \cup GPIOF_INIT_HIGH

\* be32_to_cpu(): value of a big-endian 32-bit cell given as its four bytes.
be32_to_cpu(b) == ((b[1] * 256 + b[2]) * 256 + b[3]) * 256 + b[4]

\* ------------------------------------------------- hardware descriptions
\* regulator_init_data as of_get_regulator_init_data() builds it from the node.
InitDatas ==
    [name : {"vbus"}, min_uV : 0..MaxUV, max_uV : 0..MaxUV,
     boot_on : BOOLEAN, apply_uV : {1}]

\* A device tree node: the regulator constraints (or none), the "gpio"
\* property, "startup-delay-us" and "enable-active-high".
OfNodes ==
    [init_data : InitDatas \cup {NULL},
     gpio : ValidGpios,
     startup_delay_us : {[present |-> FALSE, val |-> <<0, 0, 0, 0>>],
                         [present |-> TRUE, val |-> <<0, 0, 0, 1>>]},
     enable_active_high : BOOLEAN]

\* struct mv_vbus_config as platform code may pass it in platform_data.
PlatformConfigs ==
    [supply_name : {"vbus"}, input_supply : {"NULL", "vin"},
     microvolts : (-1)..MaxUV, gpio : ValidGpios \cup {-EINVAL},
     startup_delay : 0..1, enable_high : BOOLEAN, enabled_at_boot : BOOLEAN,
     init_data : {NULL,
                  [name |-> "vbus", min_uV |-> 0, max_uV |-> MaxUV,
                   boot_on |-> FALSE, apply_uV |-> 1]}]

\* The platform device: either it has a device tree node, or platform data
\* (possibly none).
Pdevs ==
    [of_node : OfNodes, platform_data : {NULL}]
    \cup [of_node : {NULL}, platform_data : PlatformConfigs \cup {NULL}]

\* What the environment decides during one probe: which allocations fail,
\* how the "gpio" property resolves, whether the GPIO subsystem and the
\* regulator framework refuse for reasons of their own.
AllEnvs ==
    [config_alloc : BOOLEAN, drvdata_alloc : BOOLEAN,
     name_alloc : BOOLEAN, supply_alloc : BOOLEAN,
     of_gpio : {0, -ENODEV, -EPROBE_DEFER, -EINVAL},
     gpio_err : {0, -EBUSY},
     reg_err : {0, -EINVAL, -EPROBE_DEFER}]

\* The number of allocations, requests and registrations the environment refuses.
Refusals(env) ==
    Cardinality({f \in {"config_alloc", "drvdata_alloc", "name_alloc",
                        "supply_alloc"} : ~env[f]})
    + (IF env.gpio_err # 0 THEN 1 ELSE 0)
    + (IF env.reg_err # 0 THEN 1 ELSE 0)

\* A probe run returns at the first refusal and never consults the later
\* ones, so the environments with at most one refusal produce every run.
Envs == {env \in AllEnvs : Refusals(env) <= 1}

VARIABLES
    pdev,          \* the platform device (fixed over the device's life)
    config,        \* the mv_vbus_config the last probe used, or NULL
    drvdata,       \* the mv_vbus_data of the last probe, or NULL
    kmem,          \* the kstrdup'ed strings of the last probe
    gpio,          \* the GPIO subsystem: per line, ownership and level
    rdev,          \* the regulator framework's registration, or NULL
    pdev_drvdata,  \* platform_get_drvdata(pdev): "NULL" or "drvdata"
    last,          \* the last call: op, argument, return value, and for
                   \* probe what of_get_mv_vbus_config returned; the
                   \* argument of a probe of a device tree node is how
                   \* the GPIO lookup answers (0: with the line)
    log            \* the calls the last handler made, in order

vars == <<pdev, config, drvdata, kmem, gpio, rdev, pdev_drvdata, last, log>>

\* ------------------------------------------------ external collaborators
\* of_get_regulator_init_data(): the node's constraints, NULL when it has none.
of_get_regulator_init_data(np) == np.init_data

\* of_get_named_gpio(): the line the "gpio" property names, or a negative
\* errno when the GPIO controller cannot resolve it (yet).
of_get_named_gpio(np, env) == IF env.of_gpio = 0 THEN np.gpio ELSE env.of_gpio

\* kstrdup(): a fresh copy named obj, or NULL when the allocation fails.
kstrdup(w, obj, ok) ==
    IF ok
    THEN [ptr |-> obj,
          w |-> [w EXCEPT !.kmem[obj] = [alloc |-> TRUE, frees |-> 0],
                          !.log = Append(@, "kstrdup " \o obj)]]
    ELSE [ptr |-> "NULL", w |-> w]

\* kfree(): no-op on NULL, otherwise one release of the object.
kfree(w, ptr) ==
    IF ptr = "NULL" THEN w
    ELSE [w EXCEPT !.kmem[ptr].frees = @ + 1,
                   !.log = Append(@, "kfree " \o ptr)]

\* gpio_request_one(): exclusive ownership of a line; an output is driven
\* to the level of GPIOF_INIT_HIGH in the same request.
gpio_request_one(w, number, flags, label, env) ==
    LET w1 == [w EXCEPT !.log = Append(@, "gpio_request_one")]
    IN  IF env.gpio_err # 0 THEN [err |-> env.gpio_err, w |-> w1]
        ELSE IF w.gpio[number].requested THEN [err |-> -EBUSY, w |-> w1]
        ELSE [err |-> 0,
              w |-> [w1 EXCEPT
                       !.gpio[number] =
                           [requested |-> TRUE, label |-> label,
                            is_out |-> ~("DIR_IN" \in flags),
                            level |-> IF "DIR_IN" \in flags THEN @.level
                                      ELSE "INIT_HIGH" \in flags,
                            frees |-> 0]]]

\* gpio_set_value_cansleep(): drive a line.
gpio_set_value_cansleep(g, number, value) ==
    [g EXCEPT ![number].level = value]

\* regulator_register(): the framework's registration, holding the
\* descriptor, the constraints and the driver data; or an error pointer.
regulator_register(desc, cfg, env) ==
    IF env.reg_err # 0
    THEN [dev |-> [ptr |-> "ERR_PTR", err |-> env.reg_err], rdev |-> NULL]
    ELSE [dev |-> [ptr |-> "rdev", err |-> 0],
          rdev |-> [desc |-> desc, init_data |-> cfg.init_data,
                    reg_data |-> cfg.driver_data]]

\* ------------------------------------------------------- ConfigExtractor
\* devm_kzalloc() of struct mv_vbus_config: every field zero.
ZeroConfig ==
    [supply_name |-> "NULL", input_supply |-> "NULL", microvolts |-> 0,
     gpio |-> 0, startup_delay |-> 0, enable_high |-> FALSE,
     enabled_at_boot |-> FALSE, init_data |-> NULL]

\* Faulty variant: a variable voltage range is accepted.
of_get_mv_vbus_config_norange(dev, env) ==
    LET np == dev.of_node
        init_data == of_get_regulator_init_data(np)
        c1 == [ZeroConfig EXCEPT !.init_data = init_data]
        c2 == [c1 EXCEPT !.init_data.apply_uV = 0,
                         !.supply_name = init_data.name]
        c3 == [c2 EXCEPT !.microvolts = init_data.min_uV,
                         !.enabled_at_boot = IF init_data.boot_on THEN TRUE ELSE @,
                         !.gpio = of_get_named_gpio(np, env)]
        c4 == [c3 EXCEPT !.startup_delay =
                             IF np.startup_delay_us.present
                             THEN be32_to_cpu(np.startup_delay_us.val) ELSE @,
                         !.enable_high =
                             IF np.enable_active_high THEN TRUE ELSE @]
    IN  IF ~env.config_alloc THEN [err |-> -ENOMEM, config |-> NULL]
        ELSE IF init_data = NULL THEN [err |-> -EINVAL, config |-> c1]
        ELSE IF c3.gpio = -ENODEV \/ c3.gpio = -EPROBE_DEFER
             THEN [err |-> -EPROBE_DEFER, config |-> c3]
        ELSE [err |-> 0, config |-> c4]

\* Faulty variant: only -EPROBE_DEFER from the GPIO lookup defers the probe.
of_get_mv_vbus_config_nodev(dev, env) ==
    LET np == dev.of_node
        init_data == of_get_regulator_init_data(np)
        c1 == [ZeroConfig EXCEPT !.init_data = init_data]
        c2 == [c1 EXCEPT !.init_data.apply_uV = 0,
                         !.supply_name = init_data.name]
        c3 == [c2 EXCEPT !.microvolts = init_data.min_uV,
                         !.enabled_at_boot = IF init_data.boot_on THEN TRUE ELSE @,
                         !.gpio = of_get_named_gpio(np, env)]
        c4 == [c3 EXCEPT !.startup_delay =
                             IF np.startup_delay_us.present
                             THEN be32_to_cpu(np.startup_delay_us.val) ELSE @,
                         !.enable_high =
                             IF np.enable_active_high THEN TRUE ELSE @]
    IN  IF ~env.config_alloc THEN [err |-> -ENOMEM, config |-> NULL]
        ELSE IF init_data = NULL THEN [err |-> -EINVAL, config |-> c1]
        ELSE IF init_data.min_uV # init_data.max_uV
             THEN [err |-> -EINVAL, config |-> c2]
        ELSE IF c3.gpio = -EPROBE_DEFER
             THEN [err |-> -EPROBE_DEFER, config |-> c3]
        ELSE [err |-> 0, config |-> c4]

\* Faulty variant: the GPIO lookup is tested before the voltage range.
of_get_mv_vbus_config_gpiofirst(dev, env) ==
    LET np == dev.of_node
        init_data == of_get_regulator_init_data(np)
        c1 == [ZeroConfig EXCEPT !.init_data = init_data]
        c2 == [c1 EXCEPT !.init_data.apply_uV = 0,
                         !.supply_name = init_data.name]
        c3 == [c2 EXCEPT !.microvolts = init_data.min_uV,
                         !.enabled_at_boot = IF init_data.boot_on THEN TRUE ELSE @,
                         !.gpio = of_get_named_gpio(np, env)]
        c4 == [c3 EXCEPT !.startup_delay =
                             IF np.startup_delay_us.present
                             THEN be32_to_cpu(np.startup_delay_us.val) ELSE @,
                         !.enable_high =
                             IF np.enable_active_high THEN TRUE ELSE @]
    IN  IF ~env.config_alloc THEN [err |-> -ENOMEM, config |-> NULL]
        ELSE IF init_data = NULL THEN [err |-> -EINVAL, config |-> c1]
        ELSE IF c3.gpio = -ENODEV \/ c3.gpio = -EPROBE_DEFER
             THEN [err |-> -EPROBE_DEFER, config |-> c3]
        ELSE IF init_data.min_uV # init_data.max_uV
             THEN [err |-> -EINVAL, config |-> c2]
        ELSE [err |-> 0, config |-> c4]

\* Returns err (0 or the errno of the ERR_PTR) and the contents of the
\* config structure when it returns (NULL when it was not allocated).
of_get_mv_vbus_config(dev, env) ==
    LET np == dev.of_node
        init_data == of_get_regulator_init_data(np)
        c1 == [ZeroConfig EXCEPT !.init_data = init_data]
        c2 == [c1 EXCEPT !.init_data.apply_uV = 0,
                         !.supply_name = init_data.name]
        c3 == [c2 EXCEPT !.microvolts = init_data.min_uV,
                         !.enabled_at_boot = IF init_data.boot_on THEN TRUE ELSE @,
                         !.gpio = of_get_named_gpio(np, env)]
        c4 == [c3 EXCEPT !.startup_delay =
                             IF np.startup_delay_us.present
                             THEN be32_to_cpu(np.startup_delay_us.val) ELSE @,
                         !.enable_high =
                             IF np.enable_active_high THEN TRUE ELSE @]
    IN  IF ~env.config_alloc THEN [err |-> -ENOMEM, config |-> NULL]
        ELSE IF init_data = NULL THEN [err |-> -EINVAL, config |-> c1]
        ELSE IF init_data.min_uV # init_data.max_uV
             THEN [err |-> -EINVAL, config |-> c2]
        ELSE IF c3.gpio = -ENODEV \/ c3.gpio = -EPROBE_DEFER
             THEN [err |-> -EPROBE_DEFER, config |-> c3]
        ELSE [err |-> 0, config |-> c4]

\* ------------------------------------------------- capability handlers
rdev_get_drvdata(dev) == dev.reg_data

\* Faulty variant: the test of the stored voltage is inverted.
mv_vbus_get_voltage_inverted(dev, data) ==
    IF data.microvolts = 0 THEN data.microvolts ELSE -EINVAL

\* Faulty variant: the stored voltage is reported even when it is zero.
mv_vbus_get_voltage_nocheck(dev, data) == data.microvolts

mv_vbus_get_voltage(dev, data) ==
    IF data.microvolts # 0 THEN data.microvolts ELSE -EINVAL

\* Faulty variant: the selector is not checked.
mv_vbus_list_voltage_anysel(dev, data, selector) == data.microvolts

mv_vbus_list_voltage(dev, data, selector) ==
    IF selector # 0 THEN -EINVAL ELSE data.microvolts

\* Faulty variant: the polarity is ignored.
mv_vbus_gpio_set_nopolarity(dev, data, g, enable) ==
    IF dev.reg_data = "NULL" THEN [ret |-> -EINVAL, gpio |-> g, wrote |-> FALSE]
    ELSE [ret |-> 0,
          gpio |-> gpio_set_value_cansleep(g, data.gpio, enable),
          wrote |-> TRUE]

\* Faulty variant: the pin is toggled instead of driven to a level.
mv_vbus_gpio_set_toggle(dev, data, g, enable) ==
    IF dev.reg_data = "NULL" THEN [ret |-> -EINVAL, gpio |-> g, wrote |-> FALSE]
    ELSE [ret |-> 0,
          gpio |-> gpio_set_value_cansleep(g, data.gpio, ~g[data.gpio].level),
          wrote |-> TRUE]

\* Faulty variant: line 0 is written instead of the instance's line.
mv_vbus_gpio_set_line0(dev, data, g, enable) ==
    IF dev.reg_data = "NULL" THEN [ret |-> -EINVAL, gpio |-> g, wrote |-> FALSE]
    ELSE LET gpio_val == IF enable THEN ~data.ena_gpio_invert
                         ELSE data.ena_gpio_invert
         IN  [ret |-> 0,
              gpio |-> gpio_set_value_cansleep(g, 0, gpio_val),
              wrote |-> TRUE]

\* Returns the return value and the GPIO state after the call.
mv_vbus_gpio_set(dev, data, g, enable) ==
    IF dev.reg_data = "NULL" THEN [ret |-> -EINVAL, gpio |-> g, wrote |-> FALSE]
    ELSE LET gpio_val == IF enable THEN ~data.ena_gpio_invert
                         ELSE data.ena_gpio_invert
         IN  [ret |-> 0,
              gpio |-> gpio_set_value_cansleep(g, data.gpio, gpio_val),
              wrote |-> TRUE]

mv_vbus_enable_supply(dev, data, g) == mv_vbus_gpio_set(dev, data, g, TRUE)

mv_vbus_disable_supply(dev, data, g) == mv_vbus_gpio_set(dev, data, g, FALSE)

mv_vbus_suspend_disable(dev, data, g) == mv_vbus_disable_supply(dev, data, g)

\* ------------------------------------------------------------- probe
\* devm_kzalloc() of struct mv_vbus_data: every field zero.
ZeroDrvdata ==
    [desc |-> [name |-> "NULL", supply_name |-> "NULL", n_voltages |-> 0,
               enable_time |-> 0, type |-> "NULL", ops |-> "NULL"],
     dev |-> [ptr |-> "NULL", err |-> 0], gpio |-> 0, ena_gpio_invert |-> FALSE, microvolts |-> 0]

\* label err
probe_err(w, ret) == [w EXCEPT !.ret = ret]

\* Faulty variant: label err_name frees nothing.
probe_err_name_nofree(w, ret) == probe_err(w, ret)

\* label err_name
probe_err_name(w, ret) == probe_err(kfree(w, w.drvdata.desc.name), ret)

\* label err_input
probe_err_input(w, ret) ==
    probe_err_name(kfree(w, w.drvdata.desc.supply_name), ret)

\* Faulty variant: a zero voltage is rejected after the registration, which
\* is left in place.
probe_register_late(w, cfg0, env) ==
    LET cfg == [cfg0 EXCEPT !.init_data = w.config.init_data,
                            !.driver_data = "drvdata"]
        r == regulator_register(w.drvdata.desc, cfg, env)
        w1 == [w EXCEPT !.drvdata.dev = r.dev, !.rdev = r.rdev,
                        !.log = Append(@, "regulator_register")]
    IN  IF r.dev.ptr = "ERR_PTR" THEN probe_err_input(w1, r.dev.err)
        ELSE IF w.config.microvolts = 0 THEN probe_err_input(w1, -EINVAL)
        ELSE [w1 EXCEPT !.pdev_drvdata = "drvdata", !.ret = 0]

\* Faulty variant: the driver data is not handed to the framework.
probe_register_nodata(w, cfg0, env) ==
    LET cfg == [cfg0 EXCEPT !.init_data = w.config.init_data]
        r == regulator_register(w.drvdata.desc, cfg, env)
        w1 == [w EXCEPT !.drvdata.dev = r.dev, !.rdev = r.rdev,
                        !.log = Append(@, "regulator_register")]
    IN  IF r.dev.ptr = "ERR_PTR" THEN probe_err_input(w1, r.dev.err)
        ELSE [w1 EXCEPT !.pdev_drvdata = "drvdata", !.ret = 0]

\* Registration with the framework and its failure path.
probe_register(w, cfg0, env) ==
    LET cfg == [cfg0 EXCEPT !.init_data = w.config.init_data,
                            !.driver_data = "drvdata"]
        r == regulator_register(w.drvdata.desc, cfg, env)
        w1 == [w EXCEPT !.drvdata.dev = r.dev, !.rdev = r.rdev,
                        !.log = Append(@, "regulator_register")]
    IN  IF r.dev.ptr = "ERR_PTR" THEN probe_err_input(w1, r.dev.err)
        ELSE [w1 EXCEPT !.pdev_drvdata = "drvdata", !.ret = 0]

\* Faulty variant: a rail that is off at boot gets the levels of one that is on.
probe_gpio_flags_bootonly(cfg) ==
    IF cfg.enable_high THEN GPIOF_OUT_INIT_HIGH ELSE GPIOF_OUT_INIT_LOW

\* Faulty variant: the two levels are exchanged.
probe_gpio_flags_swapped(cfg) ==
    IF cfg.enabled_at_boot
    THEN (IF cfg.enable_high THEN GPIOF_OUT_INIT_LOW ELSE GPIOF_OUT_INIT_HIGH)
    ELSE (IF cfg.enable_high THEN GPIOF_OUT_INIT_HIGH ELSE GPIOF_OUT_INIT_LOW)

\* The initial-level flags chosen from enabled_at_boot and enable_high.
probe_gpio_flags(cfg) ==
    IF cfg.enabled_at_boot
    THEN (IF cfg.enable_high THEN GPIOF_OUT_INIT_HIGH ELSE GPIOF_OUT_INIT_LOW)
    ELSE (IF cfg.enable_high THEN GPIOF_OUT_INIT_LOW ELSE GPIOF_OUT_INIT_HIGH)

\* Faulty variant: the result of the GPIO request is ignored.
probe_gpio_ignorereq(w, env) ==
    LET cfg0 == [ena_gpio |-> 0, ena_gpio_invert |-> FALSE,
                 ena_gpio_flags |-> {}, init_data |-> NULL,
                 driver_data |-> "NULL"]
    IN  IF gpio_is_valid(w.config.gpio)
        THEN LET cfg1 == [cfg0 EXCEPT
                            !.ena_gpio_invert = ~w.config.enable_high,
                            !.ena_gpio_flags = @ \cup probe_gpio_flags(w.config)]
                 r == gpio_request_one(w, w.config.gpio,
                                       GPIOF_DIR_OUT \cup cfg1.ena_gpio_flags,
                                       w.drvdata.desc.name, env)
             IN  probe_register(
                        [r.w EXCEPT !.drvdata.gpio = w.config.gpio,
                                    !.drvdata.ena_gpio_invert = cfg1.ena_gpio_invert],
                        [cfg1 EXCEPT !.ena_gpio = 0], env)
        ELSE probe_err_input(w, -EINVAL)

\* Validation and acquisition of the enable GPIO.
probe_gpio(w, env) ==
    LET cfg0 == [ena_gpio |-> 0, ena_gpio_invert |-> FALSE,
                 ena_gpio_flags |-> {}, init_data |-> NULL,
                 driver_data |-> "NULL"]
    IN  IF gpio_is_valid(w.config.gpio)
        THEN LET cfg1 == [cfg0 EXCEPT
                            !.ena_gpio_invert = ~w.config.enable_high,
                            !.ena_gpio_flags = @ \cup probe_gpio_flags(w.config)]
                 r == gpio_request_one(w, w.config.gpio,
                                       GPIOF_DIR_OUT \cup cfg1.ena_gpio_flags,
                                       w.drvdata.desc.name, env)
             IN  IF r.err # 0 THEN probe_err_name(r.w, r.err)
                 ELSE probe_register(
                        [r.w EXCEPT !.drvdata.gpio = w.config.gpio,
                                    !.drvdata.ena_gpio_invert = cfg1.ena_gpio_invert],
                        [cfg1 EXCEPT !.ena_gpio = 0], env)
        ELSE probe_err_input(w, -EINVAL)

\* Allocation of the driver data and of the name strings.
probe_alloc(w, env) ==
    IF ~env.drvdata_alloc THEN probe_err(w, -ENOMEM)
    ELSE
    LET w1 == [w EXCEPT !.drvdata = ZeroDrvdata,
                        !.log = Append(@, "devm_kzalloc drvdata")]
        n == kstrdup(w1, "name", env.name_alloc)
        w2 == [n.w EXCEPT !.drvdata.desc.name = n.ptr]
    IN  IF n.ptr = "NULL" THEN probe_err(w2, -ENOMEM)
        ELSE
        LET w3 == [w2 EXCEPT !.drvdata.desc.type = "REGULATOR_VOLTAGE",
                             !.drvdata.desc.ops = "vbus_ops",
                             !.drvdata.desc.enable_time = w.config.startup_delay]
            s == IF w.config.input_supply # "NULL"
                 THEN kstrdup(w3, "supply_name", env.supply_alloc)
                 ELSE [ptr |-> "NULL", w |-> w3]
            w4 == [s.w EXCEPT !.drvdata.desc.supply_name = s.ptr]
        IN  IF w.config.input_supply # "NULL" /\ s.ptr = "NULL"
            THEN probe_err_name(w4, -ENOMEM)
            ELSE probe_gpio(
                   [w4 EXCEPT
                      !.drvdata.desc.n_voltages =
                          IF w.config.microvolts # 0 THEN 1 ELSE @,
                      !.drvdata.microvolts = w.config.microvolts],
                   env)

\* Faulty variant: an extraction error is reported as -ENOMEM.
mv_vbus_reg_probe_enomem(dev, w, env) ==
    LET ex == IF dev.of_node # NULL
              THEN of_get_mv_vbus_config(dev, env)
              ELSE [err |-> 0, config |-> dev.platform_data]
        w1 == [w EXCEPT !.config = ex.config, !.extract = ex.err]
    IN  IF ex.err # 0 THEN probe_err(w1, -ENOMEM)
        ELSE IF ex.config = NULL THEN probe_err(w1, -ENOMEM)
        ELSE probe_alloc(w1, env)

mv_vbus_reg_probe(dev, w, env) ==
    LET ex == IF dev.of_node # NULL
              THEN of_get_mv_vbus_config(dev, env)
              ELSE [err |-> 0, config |-> dev.platform_data]
        w1 == [w EXCEPT !.config = ex.config, !.extract = ex.err]
    IN  IF ex.err # 0 THEN probe_err(w1, ex.err)
        ELSE IF ex.config = NULL THEN probe_err(w1, -ENOMEM)
        ELSE probe_alloc(w1, env)

\* ------------------------------------------------------------ remove
\* regulator_unregister(): the registration is dropped.
regulator_unregister(w) ==
    [w EXCEPT !.rdev = NULL, !.log = Append(@, "regulator_unregister")]

mv_vbus_reg_remove(w) ==
    LET w1 == regulator_unregister(w)
        w2 == kfree(w1, w1.drvdata.desc.supply_name)
        w3 == kfree(w2, w2.drvdata.desc.name)
    IN  [w3 EXCEPT !.ret = 0]

\* ------------------------------------------------------ state machine
FreshKmem ==
    [name |-> [alloc |-> FALSE, frees |-> 0],
     supply_name |-> [alloc |-> FALSE, frees |-> 0]]

Init ==
    /\ pdev \in Pdevs
    /\ config = NULL
    /\ drvdata = NULL
    /\ kmem = FreshKmem
    /\ \E lvl \in BOOLEAN :
         gpio = [n \in ValidGpios |->
                   [requested |-> FALSE, label |-> "NULL", is_out |-> FALSE,
                    level |-> lvl, frees |-> 0]]
    /\ rdev = NULL
    /\ pdev_drvdata = "NULL"
    /\ last = [op |-> "none", arg |-> 0, ret |-> 0, extract |-> 0]
    /\ log = <<>>

\* The driver core binds the driver: only while no instance is bound.
Probe ==
    /\ pdev_drvdata = "NULL"
    /\ \E env \in Envs :
         LET w == mv_vbus_reg_probe(pdev,
                    [config |-> NULL, drvdata |-> NULL, kmem |-> FreshKmem,
                     gpio |-> gpio, rdev |-> rdev,
                     pdev_drvdata |-> pdev_drvdata, log |-> <<>>, ret |-> 0,
                     extract |-> 0],
                    env)
         IN  /\ config' = w.config
             /\ drvdata' = w.drvdata
             /\ kmem' = w.kmem
             /\ gpio' = w.gpio
             /\ rdev' = w.rdev
             /\ pdev_drvdata' = w.pdev_drvdata
             /\ log' = w.log
             /\ last' = [op |-> "probe",
                          arg |-> IF pdev.of_node # NULL THEN env.of_gpio ELSE 0,
                          ret |-> w.ret, extract |-> w.extract]
    /\ UNCHANGED pdev

\* The driver core unbinds a bound instance; it clears the device's
\* driver data once remove has returned.
Remove ==
    /\ pdev_drvdata = "drvdata"
    /\ LET w == mv_vbus_reg_remove(
                  [config |-> config, drvdata |-> drvdata, kmem |-> kmem,
                   gpio |-> gpio, rdev |-> rdev,
                   pdev_drvdata |-> pdev_drvdata, log |-> <<>>, ret |-> 0,
                   extract |-> 0])
       IN  /\ kmem' = w.kmem
           /\ gpio' = w.gpio
           /\ rdev' = w.rdev
           /\ log' = w.log
           /\ last' = [op |-> "remove", arg |-> 0, ret |-> w.ret,
                        extract |-> 0]
    /\ pdev_drvdata' = "NULL"
    /\ UNCHANGED <<pdev, config, drvdata>>

\* The framework calls a pin-writing handler of a registered regulator.
PinOp(name, r) ==
    /\ gpio' = r.gpio
    /\ log' = IF r.wrote THEN <<"gpio_set_value_cansleep">> ELSE <<>>
    /\ last' = [op |-> name, arg |-> 0, ret |-> r.ret, extract |-> 0]
    /\ UNCHANGED <<pdev, config, drvdata, kmem, rdev, pdev_drvdata>>

Enable ==
    /\ rdev # NULL
    /\ PinOp("enable", mv_vbus_enable_supply(rdev, drvdata, gpio))

Disable ==
    /\ rdev # NULL
    /\ PinOp("disable", mv_vbus_disable_supply(rdev, drvdata, gpio))

SuspendDisable ==
    /\ rdev # NULL
    /\ PinOp("suspend_disable", mv_vbus_suspend_disable(rdev, drvdata, gpio))

GetVoltage ==
    /\ rdev # NULL
    /\ last' = [op |-> "get_voltage", arg |-> 0,
                ret |-> mv_vbus_get_voltage(rdev, drvdata), extract |-> 0]
    /\ log' = <<>>
    /\ UNCHANGED <<pdev, config, drvdata, kmem, gpio, rdev, pdev_drvdata>>

ListVoltage ==
    /\ rdev # NULL
    /\ \E selector \in 0..MaxSelector :
         last' = [op |-> "list_voltage", arg |-> selector,
                  ret |-> mv_vbus_list_voltage(rdev, drvdata, selector),
                  extract |-> 0]
    /\ log' = <<>>
    /\ UNCHANGED <<pdev, config, drvdata, kmem, gpio, rdev, pdev_drvdata>>

Next ==
    \/ Probe
    \/ Remove
    \/ Enable
    \/ Disable
    \/ SuspendDisable
    \/ GetVoltage
    \/ ListVoltage

Spec == Init /\ [][Next]_vars

\* ------------------------------------------------------------ properties
Called(ev) == \E i \in 1..Len(log) : log[i] = ev

\* The last call was a probe whose regulator_register() returned an error.
RegistrationFailed ==
    /\ last.op = "probe"
    /\ drvdata # NULL
    /\ drvdata.dev.ptr = "ERR_PTR"

\* The last call was a probe whose gpio_request_one() returned an error.
GpioRequestFailed ==
    /\ last.op = "probe"
    /\ Called("gpio_request_one")
    /\ ~Called("regulator_register")

\* A string of the last probe was allocated and released exactly once.
FreedOnce(obj) == kmem[obj].alloc /\ kmem[obj].frees = 1

\* The string was never allocated, or allocated and released exactly once.
NotRetained(obj) == kmem[obj].alloc => kmem[obj].frees = 1

\* The device has a device tree node whose constraints are given.
OfInitData == pdev.of_node # NULL /\ pdev.of_node.init_data # NULL

\* C1: when the pin was acquired and registration with the framework then
\* fails, probe returns the framework's error code, the pin is no longer
\* owned, and the name and input-supply strings have been freed.
C1_RegFailureUnwindsPin ==
    RegistrationFailed =>
        /\ last.ret = drvdata.dev.err
        /\ ~gpio[drvdata.gpio].requested
        /\ FreedOnce("name")
        /\ NotRetained("supply_name")

\* C2: remove unregisters, then releases the pin, then frees the strings;
\* afterwards the pin is not owned, and it was released exactly once.
C2_RemoveReleasesPinOnce ==
    last.op = "remove" =>
        /\ \E i, j, k \in 1..Len(log) :
              /\ i < j /\ j < k
              /\ log[i] = "regulator_unregister"
              /\ log[j] = "gpio_free"
              /\ log[k] = "kfree name"
              /\ kmem.supply_name.alloc =>
                    \E m \in (j + 1)..Len(log) : log[m] = "kfree supply_name"
        /\ ~gpio[drvdata.gpio].requested
        /\ gpio[drvdata.gpio].frees = 1

\* C3: when requesting the pin fails, probe returns the error, the name
\* string and the input-supply string (when one was recorded) have each
\* been freed exactly once, and no pin is owned.
C3_GpioFailureFreesStrings ==
    GpioRequestFailed =>
        /\ last.ret # 0
        /\ FreedOnce("name")
        /\ NotRetained("supply_name")
        /\ \A n \in ValidGpios : ~gpio[n].requested

NothingConstructed ==
    /\ drvdata = NULL
    /\ kmem = FreshKmem
    /\ ~Called("gpio_request_one")
    /\ ~Called("regulator_register")
    /\ rdev = NULL

\* C5 as stated: for every hardware description with min_uV # max_uV the
\* extractor returns -EINVAL, and probe returns it unchanged without
\* allocating a core, acquiring the pin or registering.
C5_VariableRangeIsEINVAL ==
    (last.op = "probe" /\ OfInitData
       /\ pdev.of_node.init_data.min_uV # pdev.of_node.init_data.max_uV) =>
        /\ last.extract = -EINVAL
        /\ last.ret = last.extract
        /\ NothingConstructed

\* C5 amended: for such a description the extractor returns -EINVAL unless
\* the allocation of its config structure fails, when it returns -ENOMEM;
\* either way probe returns the extractor's error unchanged without
\* allocating a core, acquiring the pin or registering.
C5_VariableRangeRejected ==
    (last.op = "probe" /\ OfInitData
       /\ pdev.of_node.init_data.min_uV # pdev.of_node.init_data.max_uV) =>
        /\ last.extract = IF config = NULL THEN -ENOMEM ELSE -EINVAL
        /\ last.ret = last.extract
        /\ NothingConstructed

\* C5 witness: a variable range rejected with -EINVAL by extractor and probe.
C5_Witness ==
    /\ last.op = "probe"
    /\ OfInitData
    /\ pdev.of_node.init_data.min_uV < pdev.of_node.init_data.max_uV
    /\ last.extract = -EINVAL
    /\ last.ret = -EINVAL

\* The config structure holds a "not ready" / "not present" pin resolution.
PinNotReady(c) == c # NULL /\ (c.gpio = -ENODEV \/ c.gpio = -EPROBE_DEFER)

\* C6: a probe whose pin resolution yields "not ready" or "not present"
\* returns -EPROBE_DEFER and acquires nothing: the GPIO lines are as they
\* were, no string is allocated, no driver data, nothing registered.
C6_NotReadyDefers ==
    [][(last'.op = "probe" /\ pdev.of_node # NULL /\ PinNotReady(config')) =>
          /\ last'.ret = -EPROBE_DEFER
          /\ last'.extract = -EPROBE_DEFER
          /\ gpio' = gpio
          /\ drvdata' = NULL
          /\ kmem' = FreshKmem
          /\ rdev' = NULL
          /\ pdev_drvdata' = "NULL"
          /\ log' = <<>>]_vars

\* C6 witness: a probe deferred because the pin is "not present".
C6_Witness ==
    /\ last.op = "probe"
    /\ pdev.of_node # NULL
    /\ config # NULL
    /\ config.gpio = -ENODEV
    /\ last.ret = -EPROBE_DEFER

\* C7: for a hardware description with min_uV = max_uV = V > 0 the extracted
\* config has microvolts = V, and on the live instance get_voltage()
\* returns V in every state.
C7_FixedVoltageReported ==
    (OfInitData /\ pdev.of_node.init_data.min_uV = pdev.of_node.init_data.max_uV
       /\ pdev.of_node.init_data.min_uV > 0) =>
        /\ (last.op = "probe" /\ last.extract = 0 /\ config # NULL) =>
              config.microvolts = pdev.of_node.init_data.min_uV
        /\ rdev # NULL =>
              /\ config.microvolts = pdev.of_node.init_data.min_uV
              /\ mv_vbus_get_voltage(rdev, drvdata) = pdev.of_node.init_data.min_uV
        /\ last.op = "get_voltage" =>
              last.ret = pdev.of_node.init_data.min_uV

\* C7 witness: get_voltage() answered on a live instance built from a
\* hardware description with the largest voltage.
C7_Witness ==
    /\ OfInitData
    /\ pdev.of_node.init_data.min_uV = MaxUV
    /\ pdev.of_node.init_data.max_uV = MaxUV
    /\ rdev # NULL
    /\ last.op = "get_voltage"
    /\ last.ret = MaxUV

\* The table of initial levels (TRUE is high).
InitialLevelTable(enabled_at_boot, enable_active_high) ==
    CASE enabled_at_boot /\ enable_active_high -> TRUE
      [] enabled_at_boot /\ ~enable_active_high -> FALSE
      [] ~enabled_at_boot /\ enable_active_high -> FALSE
      [] ~enabled_at_boot /\ ~enable_active_high -> TRUE

\* The last call was a probe that acquired the pin.
PinAcquired ==
    /\ last.op = "probe"
    /\ Called("gpio_request_one")
    /\ Called("regulator_register")

\* C8: the pin acquired by probe is an output at the level of the table,
\* set by the request itself: probe makes one request and no pin write.
C8_InitialLevelMatchesTable ==
    PinAcquired =>
        /\ gpio[config.gpio].requested
        /\ gpio[config.gpio].is_out
        /\ gpio[config.gpio].level =
              InitialLevelTable(config.enabled_at_boot, config.enable_high)
        /\ Cardinality({i \in 1..Len(log) : log[i] = "gpio_request_one"}) = 1
        /\ ~Called("gpio_set_value_cansleep")

\* C8 witness: a rail that is off at boot and active low is acquired high.
C8_Witness ==
    /\ PinAcquired
    /\ ~config.enabled_at_boot
    /\ ~config.enable_high
    /\ gpio[config.gpio].level

\* C9: after enable() the pin is at TRUE xor polarity_inverted, after
\* disable() at FALSE xor polarity_inverted, with polarity_inverted the
\* negation of enable_active_high.
C9_EnableDisablePolarity ==
    /\ rdev # NULL => drvdata.ena_gpio_invert = ~config.enable_high
    /\ last.op = "enable" =>
          /\ last.ret = 0
          /\ gpio[drvdata.gpio].level = (TRUE # drvdata.ena_gpio_invert)
          /\ gpio[drvdata.gpio].level = config.enable_high
    /\ last.op = "disable" =>
          /\ last.ret = 0
          /\ gpio[drvdata.gpio].level = (FALSE # drvdata.ena_gpio_invert)
          /\ gpio[drvdata.gpio].level = ~config.enable_high

\* C9 witness: enable() on an active-low rail drove the pin low.
C9_Witness ==
    /\ last.op = "enable"
    /\ ~config.enable_high
    /\ ~gpio[drvdata.gpio].level

\* C10: list_voltage(0) returns the configured voltage, list_voltage(n) with
\* n # 0 returns -EINVAL, and the call changes no pin level and no state.
C10_ListVoltage ==
    [][last'.op = "list_voltage" =>
          /\ last'.ret = IF last'.arg = 0 THEN config.microvolts ELSE -EINVAL
          /\ last'.arg = 0 => last'.ret = drvdata.microvolts
          /\ UNCHANGED <<pdev, config, drvdata, kmem, gpio, rdev, pdev_drvdata>>
      ]_vars

\* C10 witness: list_voltage was refused for a selector other than 0.
C10_Witness ==
    /\ last.op = "list_voltage"
    /\ last.arg # 0
    /\ last.ret = -EINVAL

\* The handlers that write the pin.
PinOps == {"enable", "disable", "suspend_disable"}

\* C11: get_voltage() returns the stored voltage when it is non-zero and
\* -EINVAL when it is zero; it never returns zero, and it changes no state.
C11_GetVoltage ==
    [][last'.op = "get_voltage" =>
          /\ last'.ret = IF drvdata.microvolts # 0 THEN drvdata.microvolts
                         ELSE -EINVAL
          /\ last'.ret # 0
          /\ UNCHANGED <<pdev, config, drvdata, kmem, gpio, rdev, pdev_drvdata>>
      ]_vars

\* C11 witness: get_voltage() refused on an instance whose voltage is zero.
C11_Witness ==
    /\ last.op = "get_voltage"
    /\ drvdata.microvolts = 0
    /\ last.ret = -EINVAL

\* C12: a probe that returns an error leaves nothing registered, and the
\* registration handle is set only by a probe that returns success.
C12_FailedProbeNotRegistered ==
    last.op = "probe" =>
        /\ last.ret # 0 =>
              /\ rdev = NULL
              /\ pdev_drvdata = "NULL"
              /\ drvdata # NULL => drvdata.dev.ptr # "rdev"
        /\ (drvdata # NULL /\ drvdata.dev.ptr = "rdev") => last.ret = 0
        /\ last.ret = 0 =>
              /\ rdev # NULL
              /\ drvdata.dev.ptr = "rdev"
              /\ pdev_drvdata = "drvdata"

\* C12 witness: a probe that failed at registration, with nothing registered.
C12_Witness ==
    /\ RegistrationFailed
    /\ last.ret # 0
    /\ rdev = NULL

\* C13: while the regulator is registered the driver owns its pin: the pin
\* was requested before the registration, remove releases no pin before it
\* has unregistered, and every pin-writing call writes a line that is
\* requested.
C13_RegisteredImpliesPinOwned ==
    /\ rdev # NULL =>
          /\ gpio_is_valid(drvdata.gpio)
          /\ gpio[drvdata.gpio].requested
          /\ gpio[drvdata.gpio].is_out
    /\ (last.op = "probe" /\ Called("regulator_register")) =>
          \E i, j \in 1..Len(log) :
              /\ i < j
              /\ log[i] = "gpio_request_one"
              /\ log[j] = "regulator_register"
    /\ (last.op \in PinOps /\ Called("gpio_set_value_cansleep")) =>
          gpio[drvdata.gpio].requested
    /\ last.op = "remove" =>
          \A j \in 1..Len(log) :
              log[j] = "gpio_free" =>
                  \E i \in 1..(j - 1) : log[i] = "regulator_unregister"

\* C13 witness: a pin write through the capability table on an owned pin.
C13_Witness ==
    /\ last.op = "enable"
    /\ rdev # NULL
    /\ Called("gpio_set_value_cansleep")
    /\ gpio[drvdata.gpio].requested

\* The pin level after the handler's call on GPIO state g.
LevelAfter(r) == r.gpio[drvdata.gpio].level

\* C14: on a live instance a second disable() leaves the level the first
\* one set, and likewise for enable().
C14_Idempotent ==
    rdev # NULL =>
        /\ LevelAfter(mv_vbus_disable_supply(rdev, drvdata,
                mv_vbus_disable_supply(rdev, drvdata, gpio).gpio))
             = LevelAfter(mv_vbus_disable_supply(rdev, drvdata, gpio))
        /\ LevelAfter(mv_vbus_enable_supply(rdev, drvdata,
                mv_vbus_enable_supply(rdev, drvdata, gpio).gpio))
             = LevelAfter(mv_vbus_enable_supply(rdev, drvdata, gpio))
        /\ last.op = "disable" =>
              mv_vbus_disable_supply(rdev, drvdata, gpio).gpio = gpio
        /\ last.op = "enable" =>
              mv_vbus_enable_supply(rdev, drvdata, gpio).gpio = gpio

\* C14 witness: after disable() on an active-low rail the pin is high and
\* another disable() keeps it there.
C14_Witness ==
    /\ last.op = "disable"
    /\ rdev # NULL
    /\ ~config.enable_high
    /\ gpio[drvdata.gpio].level
    /\ LevelAfter(mv_vbus_disable_supply(rdev, drvdata, gpio))

\* C15: on a live instance enable(), disable() and suspend_disable() return
\* 0: the registration always carries the driver data.
C15_PinOpsSucceed ==
    /\ last.op \in PinOps => last.ret = 0
    /\ rdev # NULL =>
          /\ rdev.reg_data = "drvdata"
          /\ mv_vbus_enable_supply(rdev, drvdata, gpio).ret = 0
          /\ mv_vbus_disable_supply(rdev, drvdata, gpio).ret = 0
          /\ mv_vbus_suspend_disable(rdev, drvdata, gpio).ret = 0

\* C15 witness: suspend_disable() returned 0 on a live instance.
C15_Witness ==
    /\ last.op = "suspend_disable"
    /\ rdev # NULL
    /\ last.ret = 0

\* The last call was a probe that got its config and its driver data and
\* failed before it asked for the pin.
FailedBeforePin ==
    /\ last.op = "probe"
    /\ last.extract = 0
    /\ drvdata # NULL
    /\ ~Called("gpio_request_one")

\* C16: a probe that fails before the pin is requested (name copy, input
\* supply copy, invalid pin) returns the error with every string it had
\* allocated freed exactly once, no GPIO request and nothing registered;
\* an invalid pin gives -EINVAL, a failed copy -ENOMEM.
C16_EarlyFailureUnwinds ==
    FailedBeforePin =>
        /\ last.ret # 0
        /\ \A obj \in {"name", "supply_name"} :
              kmem[obj].frees = IF kmem[obj].alloc THEN 1 ELSE 0
        /\ ~Called("regulator_register")
        /\ rdev = NULL
        /\ pdev_drvdata = "NULL"
        /\ ~kmem.name.alloc => last.ret = -ENOMEM
        /\ (kmem.name.alloc /\ config.input_supply # "NULL"
              /\ ~kmem.supply_name.alloc) => last.ret = -ENOMEM
        /\ (kmem.name.alloc
              /\ (config.input_supply # "NULL" => kmem.supply_name.alloc)) =>
              /\ ~gpio_is_valid(config.gpio)
              /\ last.ret = -EINVAL

\* C16 witness: an invalid pin rejected after both strings were copied.
C16_Witness ==
    /\ FailedBeforePin
    /\ ~gpio_is_valid(config.gpio)
    /\ FreedOnce("name")
    /\ FreedOnce("supply_name")
    /\ last.ret = -EINVAL

\* C17: enable(), disable() and suspend_disable() change nothing but the
\* level of the instance's pin; get_voltage() and list_voltage() write no
\* pin and change nothing.
C17_FrameEffects ==
    [][/\ last'.op \in PinOps =>
            /\ UNCHANGED <<pdev, config, drvdata, kmem, rdev, pdev_drvdata>>
            /\ \A n \in ValidGpios :
                  gpio'[n] = IF n = drvdata.gpio
                             THEN [gpio[n] EXCEPT !.level = gpio'[n].level]
                             ELSE gpio[n]
       /\ last'.op \in {"get_voltage", "list_voltage"} =>
            /\ UNCHANGED <<pdev, config, drvdata, kmem, gpio, rdev, pdev_drvdata>>
            /\ ~(\E i \in 1..Len(log') : log'[i] = "gpio_set_value_cansleep")
      ]_vars

\* C17 witness: suspend_disable() wrote the pin of an instance on the
\* highest line.
C17_Witness ==
    /\ last.op = "suspend_disable"
    /\ Called("gpio_set_value_cansleep")
    /\ drvdata.gpio = MaxGpio
    /\ gpio[drvdata.gpio].level = drvdata.ena_gpio_invert

\* C18: the level at acquisition is enabled_at_boot xor polarity_inverted:
\* the level enable() drives when enabled_at_boot, disable() otherwise.
C18_InitialLevelIsBootState ==
    /\ PinAcquired =>
          /\ drvdata.ena_gpio_invert = ~config.enable_high
          /\ gpio[config.gpio].level =
                (config.enabled_at_boot # drvdata.ena_gpio_invert)
    /\ (last.op = "probe" /\ last.ret = 0) =>
          gpio[config.gpio].level =
              LevelAfter(IF config.enabled_at_boot
                         THEN mv_vbus_enable_supply(rdev, drvdata, gpio)
                         ELSE mv_vbus_disable_supply(rdev, drvdata, gpio))

\* C18 witness: an active-low rail that is on at boot is acquired low, the
\* level enable() drives.
C18_Witness ==
    /\ last.op = "probe"
    /\ last.ret = 0
    /\ config.enabled_at_boot
    /\ ~config.enable_high
    /\ ~gpio[config.gpio].level
    /\ ~LevelAfter(mv_vbus_enable_supply(rdev, drvdata, gpio))

\* C19: whenever no instance is live after a probe or a remove, no GPIO
\* line is owned by the driver.
C19_NoPinOwnedWhenNotLive ==
    (last.op \in {"probe", "remove"} /\ rdev = NULL /\ pdev_drvdata = "NULL") =>
        \A n \in ValidGpios : ~gpio[n].requested

\* The hardware description has a variable range and the GPIO lookup
\* answers "not ready" or "not present".
VariableRangeAndPinNotReady ==
    /\ last.op = "probe"
    /\ OfInitData
    /\ pdev.of_node.init_data.min_uV # pdev.of_node.init_data.max_uV
    /\ last.arg \in {-ENODEV, -EPROBE_DEFER}

\* The extractor defers only with constraints whose min_uV equals max_uV.
DeferOnlyForFixedRange ==
    (last.op = "probe" /\ last.extract = -EPROBE_DEFER) =>
        /\ OfInitData
        /\ pdev.of_node.init_data.min_uV = pdev.of_node.init_data.max_uV
        /\ last.arg \in {-ENODEV, -EPROBE_DEFER}

\* C20 as stated: with a variable range and a pin that is not ready the
\* extractor and probe return -EINVAL, and the extractor defers only with
\* init data whose min_uV equals max_uV.
C20_RangeCheckedBeforePin ==
    /\ VariableRangeAndPinNotReady =>
          /\ last.extract = -EINVAL
          /\ last.ret = -EINVAL
    /\ DeferOnlyForFixedRange

\* C20 amended: with a variable range and a pin that is not ready the
\* extractor and probe return -EINVAL, or -ENOMEM when the config structure
\* cannot be allocated, never -EPROBE_DEFER; the extractor defers only
\* with init data whose min_uV equals max_uV.
C20_RangeBeforePinNeverDefers ==
    /\ VariableRangeAndPinNotReady =>
          /\ last.extract = IF config = NULL THEN -ENOMEM ELSE -EINVAL
          /\ last.ret = last.extract
          /\ last.ret # -EPROBE_DEFER
    /\ DeferOnlyForFixedRange

\* C20 witness: a variable range with a pin that is not ready, rejected
\* with -EINVAL.
C20_Witness ==
    /\ VariableRangeAndPinNotReady
    /\ last.arg = -EPROBE_DEFER
    /\ last.extract = -EINVAL
    /\ last.ret = -EINVAL

====
